---- MODULE Spec2Model ----
(***************************************************************************)
(* Model of the localization plugin (SLAMPlugin): the per-cycle            *)
(* orchestration in SLAMPlugin::process, its two subscriber callbacks and  *)
(* SLAMPlugin::initialize.  The particle filter, the odometry model and    *)
(* the laser model are collaborators defined elsewhere; they are modelled *)
(* from the design description.                                            *)
(*                                                                         *)
(* Units: lengths in hundredths of a length unit, fine headings in         *)
(* hundredths of a radian.  A planar pose is [x, y, r, a]: translation     *)
(* (x, y), heading r quarter turns plus a hundredths of a radian.  The     *)
(* quarter-turn part rotates translations exactly, so composition is not   *)
(* commutative; the fine part is additive.                                 *)
(***************************************************************************)
EXTENDS Integers, Sequences, FiniteSets, TLC

\* ------------------------------------------------------------------ bounds
MaxCycles == 2      \* process() calls explored
MaxMsgs == 2        \* messages (scans and pose resets) that arrive in a run
MaxOdom == 1        \* the transform service knows MaxOdom + 1 odometry poses
MaxPose == 1        \* pose-reset messages carry one of MaxPose + 1 poses
NumParticles == 2   \* the configured num_particles
MaxRnd == 1         \* a cycle's random draw is in 0..MaxRnd: it seeds the motion
                    \* noise, and the resampler's offset is rnd / (MaxRnd + 1) of a step
MaxGrid == 2        \* grid points of the x axis that a seeding keeps (ends included)

\* ------------------------------------------------------- program constants
XYSpread == 30      \* geo::Vec2(0.3, 0.3)
XYStep == 5         \* 0.05
ASpread == 10       \* yaw -/+ 0.1
AStep == 5          \* 0.05
QueueSize == 1      \* subscription queue size
WaitTimeout == 1    \* ros::Duration(1.0), the limit of a wait for a transform

NULL == [null |-> TRUE]

\* ------------------------------------------------------------ pose algebra
\* geo::Vec2 rotated by q quarter turns
Rot(q, v) ==
    CASE q % 4 = 0 -> [x |-> v.x, y |-> v.y]
      [] q % 4 = 1 -> [x |-> -v.y, y |-> v.x]
      [] q % 4 = 2 -> [x |-> -v.x, y |-> -v.y]
      [] q % 4 = 3 -> [x |-> v.y, y |-> -v.x]

\* geo::Pose3D: translation (x, y, z) and a rotation about the vertical axis
\* (heading r quarter turns + a)
P3(x, y, z, r, a) == [x |-> x, y |-> y, z |-> z, r |-> r % 4, a |-> a]

\* geo::Pose3D::operator*
P3Mul(p, q) ==
    LET v == Rot(p.r, q)
    IN P3(p.x + v.x, p.y + v.y, p.z + q.z, p.r + q.r, p.a + q.a)

\* geo::Pose3D::inverse
P3Inverse(p) ==
    LET v == Rot(4 - p.r, [x |-> -p.x, y |-> -p.y])
    IN P3(v.x, v.y, -p.z, 4 - p.r, -p.a)

\* geo::Transform2: translation (x, y), heading r quarter turns + a
T2(x, y, r, a) == [x |-> x, y |-> y, r |-> r % 4, a |-> a]

\* geo::Transform2::identity()
T2Identity == T2(0, 0, 0, 0)

\* geo::Transform2::operator*
T2Mul(p, q) ==
    LET v == Rot(p.r, q)
    IN T2(p.x + v.x, p.y + v.y, p.r + q.r, p.a + q.a)

\* the odometry poses the transform service can return
OdomPoses == { P3(i + 1, 0, i % 2, i + 1, 0) : i \in 0..MaxOdom }

\* the poses a pose-reset message or the configuration can carry
SeedPoses == { T2(100 * i, 0, i, 0) : i \in 0..MaxPose }

\* -------------------------------------------------- particle filter (design)
\* Sample: a pose hypothesis and a weight
Sample(pose, weight) == [pose |-> pose, weight |-> weight]

\* number of grid points lo, lo + step, ... not beyond hi
GridCount(lo, hi, step) == IF hi < lo THEN 0 ELSE (hi - lo) \div step + 1

\* the model keeps every GridStride-th point of an axis of `count` grid points,
\* so that at most `keep` points of the axis remain, the first one included
GridStride(count, keep) ==
    IF count <= keep THEN 1 ELSE (count + keep - 3) \div (keep - 1)

GridKept(count, keep) ==
    IF count = 0 THEN 0 ELSE (count - 1) \div GridStride(count, keep) + 1

\* ParticleFilter::initUniform: one sample per (kept) point of the regular grid
\* spanning [min, max] and the heading range [a_min, a_max], weight uniform.
\* At most MaxGrid points of the x axis, on which the ray-cast oracle depends,
\* are kept, and the two ends of the y axis and of the heading range.
initUniform(min, max, t_step, a_min, a_max, a_step) ==
    LET cx == GridCount(min.x, max.x, t_step)
        cy == GridCount(min.y, max.y, t_step)
        ca == GridCount(a_min.a, a_max.a, a_step)
        nx == GridKept(cx, MaxGrid)
        ny == GridKept(cy, 2)
        na == GridKept(ca, 2)
    IN [ i \in 1..(nx * ny * na) |->
           LET k == i - 1
               ix == (k \div (ny * na)) * GridStride(cx, MaxGrid)
               iy == ((k \div na) % ny) * GridStride(cy, 2)
               ia == (k % na) * GridStride(ca, 2)
           IN Sample(T2(min.x + ix * t_step, min.y + iy * t_step,
                        a_min.r, a_min.a + ia * a_step), 1) ]

\* the motion model's noise for sample i under random seed `seed`
MotionNoise(seed, i) == IF seed = 0 THEN 0 ELSE ((i + seed) % 3) - 1

\* OdomModel::updatePoses: every pose composed with the movement, plus noise;
\* weights are not touched
updatePoses(movement, seed, smpls) ==
    [ i \in 1..Len(smpls) |->
        LET p == T2Mul(smpls[i].pose, movement)
        IN Sample(T2(p.x + MotionNoise(seed, i), p.y, p.r, p.a), smpls[i].weight) ]

\* the world model's ray-cast oracle: the range class expected from a pose
RayCast(pose) == (pose.x \div XYStep) % 2

\* the per-scan likelihood of a sample: 0 models a product of beam
\* likelihoods that underflows (every beam inconsistent with the prediction)
Likelihood(scan, offset, pose) ==
    IF scan.z = -1 THEN 0
    ELSE IF RayCast(T2Mul(pose, offset)) = scan.z THEN 2 ELSE 1

\* LaserModel::updateWeights: every weight multiplied by the likelihood of
\* the scan seen from the sample's pose; poses are not touched
updateWeights(scan, offset, smpls) ==
    [ i \in 1..Len(smpls) |->
        Sample(smpls[i].pose, smpls[i].weight * Likelihood(scan, offset, smpls[i].pose)) ]

\* sum of the weights of smpls[1..n]
RECURSIVE TotalWeight(_, _)
TotalWeight(smpls, n) ==
    IF n = 0 THEN 0 ELSE TotalWeight(smpls, n - 1) + smpls[n].weight

\* systematic resampling: pointer k is at u + k * total on the cumulative
\* weights scaled by the target count n; one pass over the samples
RECURSIVE Systematic(_, _, _, _, _, _, _)
Systematic(smpls, i, cum, k, u, total, n) ==
    IF k = n THEN << >>
    ELSE IF u + k * total < n * (cum + smpls[i].weight)
         THEN << Sample(smpls[i].pose, 1) >>
                 \o Systematic(smpls, i, cum, k + 1, u, total, n)
         ELSE Systematic(smpls, i + 1, cum + smpls[i].weight, k, u, total, n)

\* ParticleFilter::resample: the new sample set and whether the weights were
\* degenerate (total zero); a degenerate set is left as it is
resample(num_samples, rnd, smpls) ==
    LET total == TotalWeight(smpls, Len(smpls))
    IN IF total = 0
       THEN [samples |-> smpls, degenerate |-> TRUE]
       ELSE [samples |-> Systematic(smpls, 1, 0, 0, (rnd * total) \div (MaxRnd + 1),
                                    total, num_samples),
             degenerate |-> FALSE]

\* weighted sum of pose component c over smpls[1..n]
RECURSIVE WeightedSum(_, _, _)
WeightedSum(smpls, n, c) ==
    IF n = 0 THEN 0
    ELSE WeightedSum(smpls, n - 1, c) + smpls[n].weight * smpls[n].pose[c]

\* index of the first sample of greatest weight among smpls[1..n]
RECURSIVE Heaviest(_, _)
Heaviest(smpls, n) ==
    IF n <= 1 THEN n
    ELSE LET h == Heaviest(smpls, n - 1)
         IN IF smpls[n].weight > smpls[h].weight THEN n ELSE h

\* ParticleFilter::calculateMeanPose: weighted mean translation and heading;
\* the identity when there is nothing to average
calculateMeanPose(smpls) ==
    LET n == Len(smpls)
        total == TotalWeight(smpls, n)
    IN IF total = 0 THEN T2Identity
       ELSE T2(WeightedSum(smpls, n, "x") \div total,
               WeightedSum(smpls, n, "y") \div total,
               smpls[Heaviest(smpls, n)].pose.r,
               WeightedSum(smpls, n, "a") \div total)

\* ------------------------------------------------------------------- state
VARIABLES
    initialized,                \* how the last initialize() call ended: "no" (not
                                \* called yet), "failed" (configuration error) or "ok"
    tf_listener_,               \* TRUE when the transform listener exists
    tf_broadcaster_,            \* TRUE when the transform broadcaster exists
    sub_laser_,                 \* TRUE when subscribed to the laser topic
    sub_initial_pose_,          \* TRUE when subscribed to the initial pose topic
    cb_queue_,                  \* pending subscriber callbacks, oldest first
    laser_msg_,                 \* the scan mailbox, NULL when empty
    initial_pose_msg_,          \* the pose-reset mailbox, NULL when empty
    have_previous_pose_,
    previous_pose_,
    laser_offset_initialized_,
    laser_offset,               \* the laser model's mounting offset, NULL until set
    samples,                    \* the particle filter's sample set
    num_particles_,
    clock,                      \* messages that have arrived so far (their stamps)
    cycles,                     \* process() calls so far
    pre,                        \* the state at the start of the process() call that
                                \* has just returned; NULL when another operation ran since
    events,                     \* what that process() call, or the initialize()
                                \* call that has just returned, did, in order
    calibrations,               \* setLaserOffset calls so far
    inbox,                      \* the messages that arrived since the last process()
                                \* call and are still to be delivered
    outcome,                    \* how the last process() call ended, "none" before
    first_odom,                 \* the first odometry pose looked up, NULL before
    travelled                   \* the movements computed so far, composed in order

vars == << initialized, tf_listener_, tf_broadcaster_, sub_laser_, sub_initial_pose_,
           cb_queue_, laser_msg_, initial_pose_msg_, have_previous_pose_,
           previous_pose_, laser_offset_initialized_, laser_offset, samples,
           num_particles_, clock, cycles, pre, events, calibrations, inbox,
           outcome, first_odom, travelled >>

Event(op, arg) == [op |-> op, arg |-> arg]

\* the events of a log that are calls of one of `ops`
Calls(log, ops) == SelectSeq(log, LAMBDA e : e.op \in ops)

\* the members and local variables of one process() call
Log(s, op, arg) == [s EXCEPT !.events = Append(@, Event(op, arg))]

Return(s) == [s EXCEPT !.returned = TRUE]

\* the outcomes of a bounded wait for, then a lookup of, a transform
TfOutcome(status, tf) == [status |-> status, tf |-> tf]

Unused == TfOutcome("unused", NULL)

\* the transforms from base link to laser the transform service can return
LaserPoses == { P3(XYStep, 0, 1, 0, 0) }

TfOutcomes(poses) ==
    { TfOutcome("timeout", NULL), TfOutcome("throw", NULL) }
        \cup { TfOutcome("ok", p) : p \in poses }

\* ---------------------------------------------------------------- callbacks
\* SLAMPlugin::laserCallback
laserCallback(s, msg) ==
    [Log(s, "laserCallback", msg) EXCEPT !.laser_msg_ = msg]

\* SLAMPlugin::initialPoseCallback
initialPoseCallback(s, msg) ==
    [Log(s, "initialPoseCallback", msg) EXCEPT !.initial_pose_msg_ = msg]

\* only the oldest pending callback is called
callAvailable_OneOnly(s, queue) ==
    IF queue = << >> THEN s
    ELSE IF Head(queue).topic = "laser" THEN laserCallback(s, Head(queue).msg)
         ELSE initialPoseCallback(s, Head(queue).msg)

\* cb_queue_.callAvailable(): every pending callback is called, oldest first
RECURSIVE callAvailable(_, _)
callAvailable(s, queue) ==
    IF queue = << >> THEN s
    ELSE LET c == Head(queue)
         IN callAvailable(IF c.topic = "laser" THEN laserCallback(s, c.msg)
                                               ELSE initialPoseCallback(s, c.msg),
                          Tail(queue))

\* a message arrives on a subscription with queue size QueueSize: the oldest
\* pending messages of the topic beyond that size are dropped
Enqueue(queue, topic, msg) ==
    LET same == SelectSeq(queue, LAMBDA c : c.topic = topic)
        drop == IF Len(same) >= QueueSize THEN Len(same) - QueueSize + 1 ELSE 0
        RECURSIVE Trim(_, _)
        Trim(q, n) ==
            IF n = 0 \/ q = << >> THEN q
            ELSE IF Head(q).topic = topic THEN Trim(Tail(q), n - 1)
                 ELSE << Head(q) >> \o Trim(Tail(q), n)
    IN Append(Trim(queue, drop), [topic |-> topic, msg |-> msg])

\* ------------------------------------------------------------ process() steps
\* the re-seeding around a pose: initUniform(p - (0.3, 0.3), p + (0.3, 0.3), 0.05,
\*                                           yaw - 0.1, yaw + 0.1, 0.05)
SeedAround(pose) ==
    initUniform([x |-> pose.x - XYSpread, y |-> pose.y - XYSpread],
                [x |-> pose.x + XYSpread, y |-> pose.y + XYSpread], XYStep,
                [r |-> pose.r, a |-> pose.a - ASpread],
                [r |-> pose.r, a |-> pose.a + ASpread], AStep)

\* the pose-reset mailbox is not cleared at the start of the cycle
ReceiveMessages_ResetKept(s, queue) ==
    callAvailable([s EXCEPT !.laser_msg_ = NULL], queue)

\* the scan mailbox is not cleared at the start of the cycle
ReceiveMessages_ScanKept(s, queue) ==
    callAvailable([s EXCEPT !.initial_pose_msg_ = NULL], queue)

\* laser_msg_.reset(); initial_pose_msg_.reset(); cb_queue_.callAvailable()
ReceiveMessages(s, queue) ==
    callAvailable([s EXCEPT !.laser_msg_ = NULL, !.initial_pose_msg_ = NULL], queue)

\* the new samples are added to the set instead of replacing it
SetInitialPose_Appends(s) ==
    IF s.initial_pose_msg_ # NULL
    THEN [Log(s, "initUniform", s.initial_pose_msg_)
             EXCEPT !.samples = @ \o SeedAround(s.initial_pose_msg_.pose)]
    ELSE s

\* if (initial_pose_msg_) { ... initUniform(...) }
SetInitialPose(s) ==
    IF s.initial_pose_msg_ # NULL
    THEN [Log(s, "initUniform", s.initial_pose_msg_)
             EXCEPT !.samples = SeedAround(s.initial_pose_msg_.pose)]
    ELSE s

\* if (!laser_msg_) return
CheckScan(s) == IF s.laser_msg_ = NULL THEN Return(s) ELSE s

\* the catch block does not return: the flag is set with the offset left at the identity
Calibrate_CatchFallsThrough(s, calib) ==
    IF s.laser_offset_initialized_ THEN s
    ELSE LET req == [target |-> "base_link", source |-> s.laser_msg_.frame_id,
                     stamp |-> s.laser_msg_.stamp]
             w == Log(s, "waitForTransform",
                      [req |-> req, timeout |-> WaitTimeout,
                       ok |-> calib.status # "timeout"])
         IN IF calib.status = "timeout" THEN Return(w)
            ELSE LET l == Log(w, "lookupTransform",
                              [req |-> req, ok |-> calib.status = "ok", tf |-> calib.tf])
                 IN IF calib.status # "ok"
                    THEN [l EXCEPT !.laser_offset = T2Identity,
                                   !.laser_offset_initialized_ = TRUE]
                    ELSE LET offset == T2(calib.tf.x, calib.tf.y, calib.tf.r, calib.tf.a)
                             c == Log(l, "setLaserOffset",
                                      [offset |-> offset, height |-> calib.tf.z])
                         IN [c EXCEPT !.laser_offset = offset,
                                      !.laser_offset_initialized_ = TRUE]

\* laser_offset_initialized_ is never set
Calibrate_FlagNotSet(s, calib) ==
    IF s.laser_offset_initialized_ THEN s
    ELSE LET req == [target |-> "base_link", source |-> s.laser_msg_.frame_id,
                     stamp |-> s.laser_msg_.stamp]
             w == Log(s, "waitForTransform",
                      [req |-> req, timeout |-> WaitTimeout,
                       ok |-> calib.status # "timeout"])
         IN IF calib.status = "timeout" THEN Return(w)
            ELSE LET l == Log(w, "lookupTransform",
                              [req |-> req, ok |-> calib.status = "ok", tf |-> calib.tf])
                 IN IF calib.status # "ok" THEN Return(l)
                    ELSE LET offset == T2(calib.tf.x, calib.tf.y, calib.tf.r, calib.tf.a)
                             c == Log(l, "setLaserOffset",
                                      [offset |-> offset, height |-> calib.tf.z])
                         IN [c EXCEPT !.laser_offset = offset]

\* a wait that times out is tried once more before the cycle is given up
Calibrate_WaitRetried(s, calib) ==
    IF s.laser_offset_initialized_ THEN s
    ELSE LET req == [target |-> "base_link", source |-> s.laser_msg_.frame_id,
                     stamp |-> s.laser_msg_.stamp]
             w == Log(s, "waitForTransform",
                      [req |-> req, timeout |-> WaitTimeout,
                       ok |-> calib.status # "timeout"])
         IN IF calib.status = "timeout"
            THEN Return(Log(w, "waitForTransform",
                            [req |-> req, timeout |-> WaitTimeout, ok |-> FALSE]))
            ELSE LET l == Log(w, "lookupTransform",
                              [req |-> req, ok |-> calib.status = "ok", tf |-> calib.tf])
                 IN IF calib.status # "ok" THEN Return(l)
                    ELSE LET offset == T2(calib.tf.x, calib.tf.y, calib.tf.r, calib.tf.a)
                             c == Log(l, "setLaserOffset",
                                      [offset |-> offset, height |-> calib.tf.z])
                         IN [c EXCEPT !.laser_offset = offset,
                                      !.laser_offset_initialized_ = TRUE]

\* if (!laser_offset_initialized_) { wait, lookup, setLaserOffset }
Calibrate(s, calib) ==
    IF s.laser_offset_initialized_ THEN s
    ELSE LET req == [target |-> "base_link", source |-> s.laser_msg_.frame_id,
                     stamp |-> s.laser_msg_.stamp]
             w == Log(s, "waitForTransform",
                      [req |-> req, timeout |-> WaitTimeout,
                       ok |-> calib.status # "timeout"])
         IN IF calib.status = "timeout" THEN Return(w)
            ELSE LET l == Log(w, "lookupTransform",
                              [req |-> req, ok |-> calib.status = "ok", tf |-> calib.tf])
                 IN IF calib.status # "ok" THEN Return(l)
                    ELSE LET offset == T2(calib.tf.x, calib.tf.y, calib.tf.r, calib.tf.a)
                             c == Log(l, "setLaserOffset",
                                      [offset |-> offset, height |-> calib.tf.z])
                         IN [c EXCEPT !.laser_offset = offset,
                                      !.laser_offset_initialized_ = TRUE]

\* the factors of the difference taken in the wrong order
Movement_Swapped(have_previous, previous, odom_to_base_link) ==
    IF have_previous
    THEN LET delta == P3Mul(odom_to_base_link, P3Inverse(previous))
         IN T2(delta.x, delta.y, delta.r, delta.a)
    ELSE T2Identity

\* the movement since the previous cycle: inverse(previous_pose_) * odom_to_base_link
\* converted to a 2D transformation, or the identity without a previous pose
Movement(have_previous, previous, odom_to_base_link) ==
    IF have_previous
    THEN LET delta == P3Mul(P3Inverse(previous), odom_to_base_link)
         IN T2(delta.x, delta.y, delta.r, delta.a)
    ELSE T2Identity

\* movement.set(...)
SetMovement(s, transform) ==
    [Log(s, "movement.set", transform) EXCEPT !.movement = transform]

\* the result of the wait is not looked at: a timeout ends in the catch block
OdomDelta_WaitIgnored(s, odom) ==
    LET req == [target |-> "odom", source |-> "base_link", stamp |-> s.laser_msg_.stamp]
        w == Log(s, "waitForTransform",
                 [req |-> req, timeout |-> WaitTimeout,
                  ok |-> odom.status # "timeout"])
        l == IF odom.status = "timeout" THEN w
             ELSE Log(w, "lookupTransform",
                      [req |-> req, ok |-> odom.status = "ok", tf |-> odom.tf])
    IN IF odom.status = "ok"
       THEN [SetMovement(l, Movement(s.have_previous_pose_, s.previous_pose_, odom.tf))
                EXCEPT !.odom_to_base_link = odom.tf,
                       !.previous_pose_ = odom.tf,
                       !.have_previous_pose_ = TRUE]
       ELSE IF ~s.have_previous_pose_ THEN Return(l)
            ELSE [SetMovement(l, T2Identity) EXCEPT !.odom_to_base_link = s.previous_pose_]

\* the catch block keeps the movement of the stored pose instead of the identity
OdomDelta_StaleMovement(s, odom) ==
    LET req == [target |-> "odom", source |-> "base_link", stamp |-> s.laser_msg_.stamp]
        w == Log(s, "waitForTransform",
                 [req |-> req, timeout |-> WaitTimeout,
                  ok |-> odom.status # "timeout"])
    IN IF odom.status = "timeout" THEN Return(w)
       ELSE LET l == Log(w, "lookupTransform",
                         [req |-> req, ok |-> odom.status = "ok", tf |-> odom.tf])
            IN IF odom.status = "ok"
               THEN [SetMovement(l, Movement(s.have_previous_pose_, s.previous_pose_,
                                             odom.tf))
                        EXCEPT !.odom_to_base_link = odom.tf,
                               !.previous_pose_ = odom.tf,
                               !.have_previous_pose_ = TRUE]
               ELSE IF ~s.have_previous_pose_ THEN Return(l)
                    ELSE [SetMovement(l, Movement(TRUE, P3(0, 0, 0, 0, 0),
                                                  s.previous_pose_))
                             EXCEPT !.odom_to_base_link = s.previous_pose_]

\* the cycle that obtains the first odometry pose only stores it and returns
OdomDelta_FirstPoseSkips(s, odom) ==
    LET req == [target |-> "odom", source |-> "base_link", stamp |-> s.laser_msg_.stamp]
        w == Log(s, "waitForTransform",
                 [req |-> req, timeout |-> WaitTimeout,
                  ok |-> odom.status # "timeout"])
    IN IF odom.status = "timeout" THEN Return(w)
       ELSE LET l == Log(w, "lookupTransform",
                         [req |-> req, ok |-> odom.status = "ok", tf |-> odom.tf])
            IN IF odom.status = "ok"
               THEN LET m == [SetMovement(l, Movement(s.have_previous_pose_,
                                                      s.previous_pose_, odom.tf))
                                 EXCEPT !.odom_to_base_link = odom.tf,
                                        !.previous_pose_ = odom.tf,
                                        !.have_previous_pose_ = TRUE]
                    IN IF s.have_previous_pose_ THEN m ELSE Return(m)
               ELSE IF ~s.have_previous_pose_ THEN Return(l)
                    ELSE [SetMovement(l, T2Identity)
                             EXCEPT !.odom_to_base_link = s.previous_pose_]

\* only the first odometry pose is stored: later movements are taken from it
OdomDelta_FirstPoseKept(s, odom) ==
    LET req == [target |-> "odom", source |-> "base_link", stamp |-> s.laser_msg_.stamp]
        w == Log(s, "waitForTransform",
                 [req |-> req, timeout |-> WaitTimeout,
                  ok |-> odom.status # "timeout"])
    IN IF odom.status = "timeout" THEN Return(w)
       ELSE LET l == Log(w, "lookupTransform",
                         [req |-> req, ok |-> odom.status = "ok", tf |-> odom.tf])
            IN IF odom.status = "ok"
               THEN [SetMovement(l, Movement(s.have_previous_pose_, s.previous_pose_,
                                             odom.tf))
                        EXCEPT !.odom_to_base_link = odom.tf,
                               !.previous_pose_ = IF s.have_previous_pose_
                                                  THEN @ ELSE odom.tf,
                               !.have_previous_pose_ = TRUE]
               ELSE IF ~s.have_previous_pose_ THEN Return(l)
                    ELSE [SetMovement(l, T2Identity)
                             EXCEPT !.odom_to_base_link = s.previous_pose_]

\* wait for and look up odom -> base_link; compute the movement
OdomDelta(s, odom) ==
    LET req == [target |-> "odom", source |-> "base_link", stamp |-> s.laser_msg_.stamp]
        w == Log(s, "waitForTransform",
                 [req |-> req, timeout |-> WaitTimeout,
                  ok |-> odom.status # "timeout"])
    IN IF odom.status = "timeout" THEN Return(w)
       ELSE LET l == Log(w, "lookupTransform",
                         [req |-> req, ok |-> odom.status = "ok", tf |-> odom.tf])
            IN IF odom.status = "ok"
               THEN [SetMovement(l, Movement(s.have_previous_pose_, s.previous_pose_,
                                             odom.tf))
                        EXCEPT !.odom_to_base_link = odom.tf,
                               !.previous_pose_ = odom.tf,
                               !.have_previous_pose_ = TRUE]
               ELSE IF ~s.have_previous_pose_ THEN Return(l)
                    ELSE [SetMovement(l, T2Identity)
                             EXCEPT !.odom_to_base_link = s.previous_pose_]

\* the particle filter is not checked
CheckSamples_Missing(s) == s

\* if (particle_filter_.samples().empty()) return
CheckSamples(s) == IF s.samples = << >> THEN Return(s) ELSE s

\* odom_model_.updatePoses(movement, 0, particle_filter_)
UpdateMotion(s, seed) ==
    [Log(s, "updatePoses", s.movement)
        EXCEPT !.samples = updatePoses(s.movement, seed, s.samples)]

\* laser_model_.updateWeights(world, *laser_msg_, particle_filter_)
UpdateSensor(s) ==
    [Log(s, "updateWeights", s.laser_msg_)
        EXCEPT !.samples = updateWeights(s.laser_msg_, s.laser_offset, s.samples)]

\* the set is resampled to the size it has, not to num_particles_
Resample_KeepsSize(s, n, rnd) ==
    LET r == resample(Len(s.samples), rnd, s.samples)
    IN [Log(s, "resample", [num_samples |-> n, degenerate |-> r.degenerate])
           EXCEPT !.samples = r.samples]

\* particle_filter_.resample(num_particles_): what resample reports is not used
Resample(s, n, rnd) ==
    LET r == resample(n, rnd, s.samples)
    IN [Log(s, "resample", [num_samples |-> n, degenerate |-> r.degenerate])
           EXCEPT !.samples = r.samples]

\* the correction composed with the inverse odometry pose on the wrong side
Publish_InverseOnLeft(s) ==
    LET mean_pose == calculateMeanPose(s.samples)
        map_to_base_link == P3(mean_pose.x, mean_pose.y, 0, mean_pose.r, mean_pose.a)
        map_to_odom == P3Mul(P3Inverse(s.odom_to_base_link), map_to_base_link)
        m == Log(s, "calculateMeanPose", mean_pose)
        t == Log(m, "sendTransform",
                 [frame_id |-> "map", child_frame_id |-> "odom",
                  stamp |-> s.laser_msg_.stamp, transform |-> map_to_odom])
    IN Log(t, "publish",
           [frame_id |-> "/map", stamp |-> s.laser_msg_.stamp,
            poses |-> [i \in 1..Len(s.samples) |->
                         P3(s.samples[i].pose.x, s.samples[i].pose.y, 0,
                            s.samples[i].pose.r, s.samples[i].pose.a)]])

\* the mean pose, the map -> odom transform sent, and the particle cloud published
Publish(s) ==
    LET mean_pose == calculateMeanPose(s.samples)
        map_to_base_link == P3(mean_pose.x, mean_pose.y, 0, mean_pose.r, mean_pose.a)
        map_to_odom == P3Mul(map_to_base_link, P3Inverse(s.odom_to_base_link))
        m == Log(s, "calculateMeanPose", mean_pose)
        t == Log(m, "sendTransform",
                 [frame_id |-> "map", child_frame_id |-> "odom",
                  stamp |-> s.laser_msg_.stamp, transform |-> map_to_odom])
    IN Log(t, "publish",
           [frame_id |-> "/map", stamp |-> s.laser_msg_.stamp,
            poses |-> [i \in 1..Len(s.samples) |->
                         P3(s.samples[i].pose.x, s.samples[i].pose.y, 0,
                            s.samples[i].pose.r, s.samples[i].pose.a)]])

\* SLAMPlugin::process up to the check of the particle filter
Prepare(s, queue, calib, odom) ==
    LET s1 == SetInitialPose(ReceiveMessages(s, queue))
        s2 == CheckScan(s1)
        s3 == IF s2.returned THEN s2 ELSE Calibrate(s2, calib)
        s4 == IF s3.returned THEN s3 ELSE OdomDelta(s3, odom)
    IN IF s4.returned THEN s4 ELSE CheckSamples(s4)

\* the resampling done before the sensor update
Update_ResampleFirst(s, n, rnd) ==
    Publish(UpdateSensor(Resample(UpdateMotion(s, rnd), n, rnd)))

\* the results published before the resampling
Update_PublishFirst(s, n, rnd) ==
    Resample(Publish(UpdateSensor(UpdateMotion(s, rnd))), n, rnd)

\* SLAMPlugin::process from the motion update on
Update(s, n, rnd) ==
    Publish(Resample(UpdateSensor(UpdateMotion(s, rnd)), n, rnd))

\* ------------------------------------------------------------------ actions
\* what an uninitialized geo::Pose3D member may hold
Uninitialized == { P3(-1, -1, -1, 3, -1) }

\* SLAMPlugin::SLAMPlugin
Init ==
    /\ initialized = "no"
    /\ tf_listener_ = FALSE
    /\ tf_broadcaster_ = FALSE
    /\ sub_laser_ = FALSE
    /\ sub_initial_pose_ = FALSE
    /\ cb_queue_ = << >>
    /\ laser_msg_ = NULL
    /\ initial_pose_msg_ = NULL
    /\ have_previous_pose_ = FALSE
    /\ previous_pose_ \in Uninitialized
    /\ laser_offset_initialized_ = FALSE
    /\ laser_offset = NULL
    /\ samples = << >>
    /\ num_particles_ = 0
    /\ clock = 0
    /\ cycles = 0
    /\ pre = NULL
    /\ events = << >>
    /\ calibrations = 0
    /\ inbox = << >>
    /\ outcome = "none"
    /\ first_odom = NULL
    /\ travelled = T2Identity

\* the laser topic is subscribed to before the configuration is checked
Initialize_SubscribesBeforeCheck(error, n, topic, pose) ==
    /\ initialized # "ok"
    /\ cycles < MaxCycles
    /\ num_particles_' = n
    /\ IF error
       THEN /\ initialized' = "failed"
            /\ sub_laser_' = TRUE
            /\ UNCHANGED << sub_initial_pose_, samples, tf_listener_,
                            tf_broadcaster_ >>
       ELSE /\ initialized' = "ok"
            /\ sub_laser_' = TRUE
            /\ sub_initial_pose_' = topic
            /\ samples' = IF pose # NULL THEN SeedAround(pose) ELSE samples
            /\ tf_listener_' = TRUE
            /\ tf_broadcaster_' = TRUE
    /\ pre' = NULL
    /\ events' = IF ~error /\ pose # NULL
                 THEN << Event("initUniform", [pose |-> pose]) >> ELSE << >>
    /\ UNCHANGED << cb_queue_, inbox, laser_msg_, initial_pose_msg_,
                    have_previous_pose_, previous_pose_, laser_offset_initialized_,
                    laser_offset, clock, cycles, calibrations, outcome, first_odom,
                    travelled >>

\* SLAMPlugin::initialize with a configuration that has an error or not, that
\* gives num_particles as n (the value is not validated), that names an initial
\* pose topic or not, and that gives an initial pose or not; the plugin host
\* calls it again only after a call that failed
Initialize(error, n, topic, pose) ==
    /\ initialized # "ok"
    /\ cycles < MaxCycles
    /\ num_particles_' = n
    /\ IF error
       THEN /\ initialized' = "failed"
            /\ UNCHANGED << sub_laser_, sub_initial_pose_, samples, tf_listener_,
                            tf_broadcaster_ >>
       ELSE /\ initialized' = "ok"
            /\ sub_laser_' = TRUE
            /\ sub_initial_pose_' = topic
            /\ samples' = IF pose # NULL THEN SeedAround(pose) ELSE samples
            /\ tf_listener_' = TRUE
            /\ tf_broadcaster_' = TRUE
    /\ pre' = NULL
    /\ events' = IF ~error /\ pose # NULL
                 THEN << Event("initUniform", [pose |-> pose]) >> ELSE << >>
    /\ UNCHANGED << cb_queue_, inbox, laser_msg_, initial_pose_msg_,
                    have_previous_pose_, previous_pose_, laser_offset_initialized_,
                    laser_offset, clock, cycles, calibrations, outcome, first_odom,
                    travelled >>

\* a message arrives on a subscribed topic
Arrive(topic, msg) ==
    /\ clock < MaxMsgs
    /\ cycles < MaxCycles
    /\ clock' = clock + 1
    /\ cb_queue_' = Enqueue(cb_queue_, topic, msg)
    /\ inbox' = Append(inbox, [topic |-> topic, msg |-> msg])
    /\ pre' = NULL
    /\ events' = << >>
    /\ UNCHANGED << initialized, tf_listener_, tf_broadcaster_, sub_laser_,
                    sub_initial_pose_, laser_msg_, initial_pose_msg_,
                    have_previous_pose_, previous_pose_, laser_offset_initialized_,
                    laser_offset, samples, num_particles_, cycles, calibrations,
                    outcome, first_odom, travelled >>

\* a sensor_msgs::LaserScan arrives; z is the range class its beams show,
\* -1 when the beams agree with no pose at all
LaserScanArrives(z) ==
    /\ sub_laser_
    /\ Arrive("laser", [stamp |-> clock + 1, frame_id |-> "laser", z |-> z])

\* a geometry_msgs::PoseWithCovarianceStamped arrives
InitialPoseArrives(pose) ==
    /\ sub_initial_pose_
    /\ Arrive("initial_pose", [stamp |-> clock + 1, pose |-> pose])

\* the state at the start of a process() call
Snapshot ==
    [samples |-> samples, have_previous_pose_ |-> have_previous_pose_,
     previous_pose_ |-> previous_pose_,
     laser_offset_initialized_ |-> laser_offset_initialized_,
     laser_offset |-> laser_offset, laser_msg_ |-> laser_msg_,
     initial_pose_msg_ |-> initial_pose_msg_, inbox |-> inbox,
     outcome |-> outcome]

\* the members process() works on, and its local variables
Members ==
    [laser_msg_ |-> laser_msg_, initial_pose_msg_ |-> initial_pose_msg_,
     samples |-> samples, have_previous_pose_ |-> have_previous_pose_,
     previous_pose_ |-> previous_pose_,
     laser_offset_initialized_ |-> laser_offset_initialized_,
     laser_offset |-> laser_offset, events |-> << >>, returned |-> FALSE,
     movement |-> NULL, odom_to_base_link |-> NULL]

\* SLAMPlugin::process as a whole
process(s, queue, n, calib, odom, rnd) ==
    LET p == Prepare(s, queue, calib, odom)
    IN IF p.returned THEN p ELSE Update(p, n, rnd)

\* how a process() call that did `log` ended
Outcome(log) ==
    LET failed(op) == \E i \in 1..Len(log) : log[i].op = op /\ ~log[i].arg.ok
    IN IF Calls(log, {"publish"}) # << >> THEN "updated"
       ELSE IF Calls(log, {"laserCallback"}) = << >> THEN "no scan"
       ELSE IF failed("waitForTransform") THEN "wait timed out"
       ELSE IF Calls(log, {"movement.set"}) # << >> THEN "empty"
       ELSE "lookup threw"

\* the odometry poses looked up in a process() call that did `log`
Looked(log) ==
    SelectSeq(log, LAMBDA e : e.op = "lookupTransform" /\ e.arg.req.target = "odom"
                                                       /\ e.arg.ok)

\* one process() call; the transform service's answers and the random draw are
\* chosen only where the call consults them
Process ==
    /\ cycles < MaxCycles
    /\ \E m \in { ReceiveMessages(Members, cb_queue_) } :
       \E calib \in IF m.laser_msg_ # NULL /\ ~laser_offset_initialized_
                    THEN TfOutcomes(LaserPoses) ELSE {Unused} :
       \E odom \in IF /\ m.laser_msg_ # NULL
                      /\ (laser_offset_initialized_ \/ calib.status = "ok")
                   THEN TfOutcomes(OdomPoses) ELSE {Unused} :
       \E p \in { Prepare(Members, cb_queue_, calib, odom) } :
       \E rnd \in IF p.returned THEN {0} ELSE 0..MaxRnd :
       \E s \in { process(Members, cb_queue_, num_particles_, calib, odom, rnd) } :
          /\ laser_msg_' = s.laser_msg_
          /\ initial_pose_msg_' = s.initial_pose_msg_
          /\ samples' = s.samples
          /\ have_previous_pose_' = s.have_previous_pose_
          /\ previous_pose_' = s.previous_pose_
          /\ laser_offset_initialized_' = s.laser_offset_initialized_
          /\ laser_offset' = s.laser_offset
          /\ events' = s.events
          /\ calibrations' = calibrations + Len(Calls(s.events, {"setLaserOffset"}))
          /\ outcome' = Outcome(s.events)
          /\ first_odom' = IF first_odom = NULL /\ Looked(s.events) # << >>
                           THEN Looked(s.events)[1].arg.tf ELSE first_odom
          /\ travelled' = IF Calls(s.events, {"movement.set"}) # << >>
                          THEN T2Mul(travelled, s.movement) ELSE travelled
    /\ cb_queue_' = << >>
    /\ inbox' = << >>
    /\ pre' = Snapshot
    /\ cycles' = cycles + 1
    /\ UNCHANGED << initialized, tf_listener_, tf_broadcaster_, sub_laser_,
                    sub_initial_pose_, num_particles_, clock >>

Next ==
    \/ \E error \in BOOLEAN, n \in {0, NumParticles}, topic \in BOOLEAN,
          pose \in {T2Identity, NULL} : Initialize(error, n, topic, pose)
    \/ \E z \in -1..0 : LaserScanArrives(z)
    \/ \E pose \in SeedPoses : InitialPoseArrives(pose)
    \/ Process

Spec == Init /\ [][Next]_vars

\* ------------------------------------------------------------------ claims
\* a process() call has just returned: pre and events describe it
After == pre # NULL

\* the calls of `op` the cycle made
Did(op) == Calls(events, {op}) # << >>

\* the names of the calls, in order
Ops(log) == [i \in 1..Len(log) |-> log[i].op]

Stages == {"updatePoses", "updateWeights", "resample"}

Publications == {"calculateMeanPose", "sendTransform", "publish"}

\* the calls that change the particle set
Mutators == Stages \cup {"initUniform"}

\* the cycle made none of the calls `ops`
None(ops) == Calls(events, ops) = << >>

\* the update path left the particle set as it was
SamplesUntouched == None(Stages) /\ (~Did("initUniform") => samples = pre.samples)

\* the transform requests of the cycle for `target` that succeeded / failed
TfCalls(op, target, ok) ==
    SelectSeq(events, LAMBDA e : e.op = op /\ e.arg.req.target = target /\ e.arg.ok = ok)

ScanDelivered == Did("laserCallback")

ResetDelivered == Did("initialPoseCallback")

\* C1: in every cycle the three filter stages run all or nothing: if one of
\* updatePoses, updateWeights, resample is called, each is called exactly once,
\* in that order, and no other change of the particle set (a pose reset) comes
\* between them: a reset of the cycle, if any, precedes all three.
C1_StagesAllOrNothingInOrder ==
    After /\ ~None(Stages) =>
        /\ Ops(Calls(events, Stages)) = << "updatePoses", "updateWeights", "resample" >>
        /\ Ops(Calls(events, Mutators)) \in
              { << "updatePoses", "updateWeights", "resample" >>,
                << "initUniform", "updatePoses", "updateWeights", "resample" >> }

\* a cycle that applied a pose reset and then ran the three stages
C1_Witness ==
    /\ After
    /\ Ops(Calls(events, Mutators)) =
          << "initUniform", "updatePoses", "updateWeights", "resample" >>

\* C2: a cycle in which neither a scan nor a pose reset was delivered does
\* nothing: no stage, no publication, and the particle set, the stored previous
\* odometry pose, have_previous_pose_ and laser_offset_initialized_ are as before.
C2_NoInputNoChange ==
    After /\ ~ScanDelivered /\ ~ResetDelivered =>
        /\ None(Stages \cup Publications)
        /\ samples = pre.samples
        /\ previous_pose_ = pre.previous_pose_
        /\ have_previous_pose_ = pre.have_previous_pose_
        /\ laser_offset_initialized_ = pre.laser_offset_initialized_

\* a cycle without input that follows a completed update
C2_Witness ==
    /\ After /\ ~ScanDelivered /\ ~ResetDelivered
    /\ pre.laser_msg_ # NULL
    /\ have_previous_pose_ /\ laser_offset_initialized_ /\ samples # << >>

\* the wait for the odometry transform timed out / its lookup threw / it was obtained
OdomTimedOut == TfCalls("waitForTransform", "odom", FALSE) # << >>

OdomThrew == TfCalls("lookupTransform", "odom", FALSE) # << >>

OdomObtained == TfCalls("lookupTransform", "odom", TRUE) # << >>

\* the odometry pose looked up in the cycle
OdomPose == TfCalls("lookupTransform", "odom", TRUE)[1].arg.tf

\* the movement computed in the cycle
MovementSet == Calls(events, {"movement.set"})[1].arg

\* a geo::Pose3D seen in the plane
Planar(p) == T2(p.x, p.y, p.r, p.a)

\* C3 as stated: a cycle in which the odometry transform cannot be obtained (the
\* wait times out or the lookup throws) is skipped: no stage is executed and the
\* particle set is left untouched.
C3_OdomFailureSkips ==
    After /\ (OdomTimedOut \/ OdomThrew) => SamplesUntouched

\* C3 as amended: a cycle is skipped (no stage, particle set untouched) when the
\* wait for the odometry transform times out, or when the lookup throws and no
\* previous odometry pose is stored; when the lookup throws and a previous pose
\* is stored, the cycle goes on with the identity movement and, the particle set
\* not being empty, runs the three stages.
C3_OdomFailureSkipsWithoutPrevious ==
    /\ After /\ (OdomTimedOut \/ (OdomThrew /\ ~pre.have_previous_pose_)) =>
          SamplesUntouched /\ None(Publications) /\ ~Did("movement.set")
    /\ After /\ OdomThrew /\ pre.have_previous_pose_ =>
          /\ MovementSet = T2Identity
          /\ (pre.samples # << >> \/ Did("initUniform")) =>
                Ops(Calls(events, Stages)) = << "updatePoses", "updateWeights", "resample" >>

\* the lookup threw while no previous pose was stored, the filter being seeded
C3_Witness ==
    After /\ OdomThrew /\ ~pre.have_previous_pose_ /\ samples # << >>

\* C4: a motion update of a cycle whose odometry lookup failed uses the identity
\* movement; a movement other than the identity is passed to the motion update
\* only in a cycle whose lookup succeeded and that began with a previous
\* odometry pose stored.
C4_NoStaleMovement ==
    After =>
        \A i \in 1..Len(events) :
            events[i].op = "updatePoses" =>
                /\ ~OdomObtained => events[i].arg = T2Identity
                /\ events[i].arg # T2Identity => OdomObtained /\ pre.have_previous_pose_

\* a motion update done in a cycle whose odometry lookup threw
C4_Witness ==
    After /\ OdomThrew /\ Did("updatePoses")

\* C5: in a cycle whose odometry lookup succeeds the movement is the identity
\* when no previous odometry pose is stored, and otherwise the transform that
\* takes the previous odometry pose to the current one (previous * movement =
\* current, in the plane); afterwards the stored previous pose is the current
\* odometry pose and have_previous_pose_ is true.
C5_MovementIsOdomDifference ==
    After /\ OdomObtained =>
        /\ ~pre.have_previous_pose_ => MovementSet = T2Identity
        /\ pre.have_previous_pose_ =>
              T2Mul(Planar(pre.previous_pose_), MovementSet) = Planar(OdomPose)
        /\ previous_pose_ = OdomPose
        /\ have_previous_pose_

\* a second successful lookup, of a pose other than the stored one
C5_Witness ==
    /\ After /\ OdomObtained /\ pre.have_previous_pose_
    /\ OdomPose # pre.previous_pose_
    /\ MovementSet # T2Identity

\* the wait for / lookup of the base link -> laser transform failed
CalibrationFailed ==
    \/ TfCalls("waitForTransform", "base_link", FALSE) # << >>
    \/ TfCalls("lookupTransform", "base_link", FALSE) # << >>

\* the cycle asked the transform service for the base link -> laser transform
CalibrationAsked ==
    \E i \in 1..Len(events) :
        /\ events[i].op \in {"waitForTransform", "lookupTransform"}
        /\ events[i].arg.req.target = "base_link"

\* C6: while the mounting offset is not determined, a cycle with a scan whose
\* wait for or lookup of the base link -> laser transform fails is skipped: no
\* stage and no publication, the particle set untouched by the update path, the
\* stored previous odometry pose and have_previous_pose_ unchanged, and the
\* offset still undetermined.
C6_UncalibratedCycleSkipped ==
    After /\ ~pre.laser_offset_initialized_ /\ CalibrationFailed =>
        /\ SamplesUntouched
        /\ None(Publications)
        /\ previous_pose_ = pre.previous_pose_
        /\ have_previous_pose_ = pre.have_previous_pose_
        /\ ~laser_offset_initialized_
        /\ ~Did("setLaserOffset")

\* the calibration lookup threw while the filter was seeded
C6_Witness ==
    /\ After /\ ~pre.laser_offset_initialized_
    /\ TfCalls("lookupTransform", "base_link", FALSE) # << >>
    /\ samples # << >>

\* C7: the mounting offset is calibrated at most once: setLaserOffset is called
\* exactly in the cycle in which the wait for and the lookup of the base link ->
\* laser transform both succeed, which only a cycle with a scan and with the
\* offset undetermined asks for; from then on laser_offset_initialized_ stays
\* true, no cycle asks for that transform or calls setLaserOffset again, and no
\* sensor update runs while laser_offset_initialized_ is false.
C7_CalibratedOnce ==
    /\ calibrations <= 1
    /\ laser_offset_initialized_ <=> calibrations = 1
    /\ After =>
          /\ Did("setLaserOffset") <=>
                /\ TfCalls("waitForTransform", "base_link", TRUE) # << >>
                /\ TfCalls("lookupTransform", "base_link", TRUE) # << >>
          /\ CalibrationAsked => ScanDelivered /\ ~pre.laser_offset_initialized_
          /\ ScanDelivered /\ ~pre.laser_offset_initialized_ => CalibrationAsked
          /\ pre.laser_offset_initialized_ =>
                /\ laser_offset_initialized_
                /\ laser_offset = pre.laser_offset
                /\ ~Did("setLaserOffset")
          /\ Did("updateWeights") => laser_offset_initialized_ /\ laser_offset # NULL

\* a sensor update in a cycle that began with the offset already calibrated
C7_Witness ==
    After /\ pre.laser_offset_initialized_ /\ Did("updateWeights") /\ calibrations = 1

\* the resample call of the cycle found the weights degenerate
Degenerate ==
    \E i \in 1..Len(events) : events[i].op = "resample" /\ events[i].arg.degenerate

\* C8: when the weights are degenerate after the sensor update (their sum is
\* zero), the cycle acts on what resample reports: it computes and publishes
\* neither a mean pose (the map -> odom transform) nor a particle cloud.
C8_DegenerateNotPublished ==
    After /\ Degenerate => None(Publications)

\* the particle set was empty when the cycle came to the update
EmptyAtUpdate == pre.samples = << >> /\ ~Did("initUniform")

\* C9: a cycle that finds the particle set empty at the point of the update
\* returns without motion update, sensor update, resample, mean pose or
\* publication, and the particle set is still empty afterwards.
C9_EmptySetNoUpdate ==
    After /\ EmptyAtUpdate =>
        /\ None(Stages \cup Publications)
        /\ samples = << >>

\* a cycle with a scan and both transforms at hand, the filter not being seeded
C9_Witness ==
    After /\ EmptyAtUpdate /\ Did("movement.set") /\ laser_offset_initialized_

\* the pose-reset messages that arrived before the cycle, oldest first
ResetsArrived == SelectSeq(pre.inbox, LAMBDA c : c.topic = "initial_pose")

\* position i of the first call of `op` in the cycle, 0 when there is none
FirstCall(op) ==
    IF Did(op) THEN CHOOSE i \in 1..Len(events) :
                        /\ events[i].op = op
                        /\ \A j \in 1..(i - 1) : events[j].op # op
    ELSE 0

\* C10: a pose reset that arrived before a cycle takes effect in that cycle:
\* the set is re-seeded once, from the most recent reset message, before the
\* motion update, so that the stages work on the re-seeded set (with the
\* identity movement the samples stay around the reset pose); a cycle re-seeds
\* only from a message that arrived since the cycle before, so that no message
\* is applied in two cycles.
C10_ResetTakesEffectOnce ==
    After =>
        /\ Len(Calls(events, {"initUniform"})) = IF ResetsArrived = << >> THEN 0 ELSE 1
        /\ Did("initUniform") =>
              /\ Calls(events, {"initUniform"})[1].arg =
                    ResetsArrived[Len(ResetsArrived)].msg
              /\ Did("updatePoses") => FirstCall("initUniform") < FirstCall("updatePoses")
              /\ Did("updatePoses") /\ MovementSet = T2Identity =>
                    \A i \in 1..Len(samples) :
                        LET around == Calls(events, {"initUniform"})[1].arg.pose
                            d == samples[i].pose.x - around.x
                        IN /\ d <= XYSpread + 1 /\ -d <= XYSpread + 1
                           /\ samples[i].pose.r = around.r

\* a reset and a scan arrived, and the cycle re-seeded and ran the stages
C10_Witness ==
    /\ After /\ Did("initUniform") /\ Did("resample")
    /\ pre.samples # << >>
    /\ pre.samples[1].pose.r # samples[1].pose.r

\* pose p lies within the seeding spread of pose c
Near(p, c) ==
    /\ p.x - c.x <= XYSpread /\ c.x - p.x <= XYSpread
    /\ p.y - c.y <= XYSpread /\ c.y - p.y <= XYSpread
    /\ p.r = c.r
    /\ p.a - c.a <= ASpread /\ c.a - p.a <= ASpread

\* the pose the seeding of the last operation was given
SeededPose == Calls(events, {"initUniform"})[1].arg.pose

\* pose p is pose q moved by the movement of the cycle, up to the motion noise
MovedFrom(p, q) ==
    LET m == T2Mul(q, MovementSet)
    IN \E e \in -1..1 : p = T2(m.x + e, m.y, m.r, m.a)

\* C11: a pose reset processed in a cycle replaces the whole particle set,
\* whatever the set was and whether or not the rest of the cycle is skipped:
\* the seeded set is not empty, every sample of it lies within 0.3 in x and y
\* and 0.1 rad in heading of the pose of the message, and it is the same set
\* whatever the prior set was; a cycle that skips the update ends with exactly
\* that set, and a cycle that goes on to the update ends with samples that all
\* descend from it (a seeded sample moved by the cycle's movement).  The
\* configured initial pose seeds in the same way at initialize().
C11_ResetReplacesSet ==
    Did("initUniform") =>
        LET seeded == SeedAround(SeededPose)
        IN /\ seeded # << >>
           /\ \A i \in 1..Len(seeded) : Near(seeded[i].pose, SeededPose)
           /\ None(Stages) => samples = seeded
           /\ ~None(Stages) =>
                 \A i \in 1..Len(samples) :
                     \E j \in 1..Len(seeded) : MovedFrom(samples[i].pose, seeded[j].pose)

\* a reset processed while tracking around another pose, in a cycle skipped
\* for want of a scan
C11_Witness ==
    /\ After /\ Did("initUniform") /\ ~ScanDelivered
    /\ pre.samples # << >>
    /\ ~Near(pre.samples[1].pose, SeededPose)
    /\ pre.have_previous_pose_

\* C12: once the particle set has been seeded it is not empty in any later
\* state: no cycle, completed or skipped, ends with an empty set when it began
\* with a seeded set or processed a pose reset.
C12_NeverEmptiedAgain ==
    After /\ (pre.samples # << >> \/ Did("initUniform")) => samples # << >>

\* the resample calls of the cycle
Resamples == Calls(events, {"resample"})

\* the size of the particle set when the cycle came to the update
SizeAtUpdate ==
    IF Did("initUniform") THEN Len(SeedAround(SeededPose)) ELSE Len(pre.samples)

\* C13 as stated: every cycle that executes the sensor update also executes
\* resample with target count num_particles_, and after every such cycle the
\* particle set has exactly num_particles_ samples; a cycle that neither
\* re-seeds nor updates keeps the set.
C13_ResampleFixesSize ==
    After =>
        /\ Did("updateWeights") =>
              /\ Len(Resamples) = 1
              /\ Resamples[1].arg.num_samples = num_particles_
              /\ Len(samples) = num_particles_
        /\ None(Mutators) => samples = pre.samples

\* C13 as amended: every cycle that executes the sensor update also executes
\* resample, once, with target count num_particles_; when the weights are not
\* degenerate the particle set has exactly num_particles_ samples afterwards;
\* when they are degenerate the set keeps the size it had at the update; a
\* cycle that neither re-seeds nor updates keeps the set, and so its size.
C13_ResampleFixesSizeUnlessDegenerate ==
    After =>
        /\ Did("updateWeights") =>
              /\ Len(Resamples) = 1
              /\ Resamples[1].arg.num_samples = num_particles_
              /\ ~Degenerate => Len(samples) = num_particles_
              /\ Degenerate => Len(samples) = SizeAtUpdate
        /\ None(Mutators) => samples = pre.samples

\* a skipped cycle after a completed one: the resampled size is kept
C13_Witness ==
    /\ After /\ None(Mutators)
    /\ pre.laser_msg_ # NULL /\ pre.have_previous_pose_
    /\ num_particles_ > 0
    /\ Len(samples) = num_particles_

\* the transforms broadcast / the particle clouds published in the cycle
Sent == Calls(events, {"sendTransform"})

Clouds == Calls(events, {"publish"})

\* C14: in a cycle the map -> odom transform and the particle cloud are each
\* published exactly once if the cycle executed resample and not at all
\* otherwise; both come after the resample, both carry the stamp of the scan
\* the cycle used for the sensor update, and the cloud is the resampled set,
\* one pose per sample, in order.
C14_PublishedExactlyAfterResample ==
    After =>
        /\ Len(Resamples) <= 1
        /\ Len(Sent) = Len(Resamples)
        /\ Len(Clouds) = Len(Resamples)
        /\ Did("resample") =>
              /\ FirstCall("resample") < FirstCall("sendTransform")
              /\ FirstCall("resample") < FirstCall("publish")
              /\ Calls(events, {"updateWeights"})[1].arg = laser_msg_
              /\ Sent[1].arg.stamp = laser_msg_.stamp
              /\ Clouds[1].arg.stamp = laser_msg_.stamp
              /\ Len(Clouds[1].arg.poses) = Len(samples)
              /\ \A i \in 1..Len(samples) :
                    /\ Planar(Clouds[1].arg.poses[i]) = samples[i].pose
                    /\ Clouds[1].arg.poses[i].z = 0

\* a publishing cycle whose resampling changed the size of the set, on the
\* second scan that arrived
C14_Witness ==
    /\ After /\ Did("publish")
    /\ Len(samples) # SizeAtUpdate /\ samples # << >>
    /\ laser_msg_.stamp = MaxMsgs

\* the ways a cycle is skipped
Skips == {"no scan", "wait timed out", "lookup threw", "empty"}

\* the calls of a cycle that runs the update and publishes, in order
FullUpdate ==
    << "updatePoses", "updateWeights", "resample",
       "calculateMeanPose", "sendTransform", "publish" >>

Waits == Calls(events, {"waitForTransform"})

\* a wait of the cycle timed out
TimedOut == \E i \in 1..Len(Waits) : ~Waits[i].arg.ok

\* C16: a transform that is not available costs a process() call a bounded
\* wait and no more, so that the call returns: every wait of a cycle has the
\* limit WaitTimeout and is made at most once per target frame; a wait that
\* times out
\* is the last thing the cycle does, so that the cycle is skipped with no
\* update, no publication and no retry; a pose reset that arrived is
\* processed all the same, in the cycle whose wait times out and in the cycle
\* after it.
C16_BoundedWaitsThenSkip ==
    After =>
          /\ \A i \in 1..Len(Waits) :
                /\ Waits[i].arg.timeout = WaitTimeout
                /\ \A j \in 1..Len(Waits) :
                      Waits[i].arg.req.target = Waits[j].arg.req.target => i = j
          /\ \A i \in 1..Len(events) :
                events[i].op = "waitForTransform" /\ ~events[i].arg.ok => i = Len(events)
          /\ TimedOut <=> outcome = "wait timed out"
          /\ TimedOut => None(Stages \cup Publications)
          /\ TimedOut \/ pre.outcome = "wait timed out" =>
                (ResetsArrived # << >> <=> Did("initUniform"))

\* a pose reset processed in the cycle after one that ended in a timed-out wait
C16_Witness ==
    After /\ pre.outcome = "wait timed out" /\ Did("initUniform")

ScansArrived == SelectSeq(pre.inbox, LAMBDA c : c.topic = "laser")

Callbacks == {"laserCallback", "initialPoseCallback"}

\* the stamps the cycle used: in its transform requests, in the scan given to
\* the sensor update, and on what it published
StampsUsed ==
    { events[i].arg.req.stamp :
          i \in { j \in 1..Len(events) :
                     events[j].op \in {"waitForTransform", "lookupTransform"} } }
    \cup { events[i].arg.stamp :
              i \in { j \in 1..Len(events) :
                         events[j].op \in {"updateWeights", "sendTransform", "publish"} } }

\* C18: the scan mailbox is cleared at the start of every cycle and filled
\* only by the callbacks run at that point: after a cycle it holds the last
\* scan that arrived since the cycle before, or nothing, never a scan left
\* from an earlier cycle; the callbacks of a cycle come before everything
\* else it does, at most QueueSize per topic; and every stamp the cycle uses
\* (calibration and odometry requests, sensor update, publications) is the
\* stamp of that one scan, which the sensor update is given, so that no scan
\* is used by two cycles.
C18_OneScanPerCycle ==
    After =>
        /\ laser_msg_ = IF ScansArrived = << >> THEN NULL
                        ELSE ScansArrived[Len(ScansArrived)].msg
        /\ \A i, j \in 1..Len(events) :
              events[i].op \in Callbacks /\ events[j].op \notin Callbacks => i < j
        /\ \A op \in Callbacks : Len(Calls(events, {op})) <= QueueSize
        /\ StampsUsed # {} => laser_msg_ # NULL /\ StampsUsed = {laser_msg_.stamp}
        /\ Did("updateWeights") =>
              /\ Calls(events, {"updateWeights"})[1].arg = laser_msg_
              /\ pre.laser_msg_ # NULL => pre.laser_msg_.stamp < laser_msg_.stamp

\* two cycles in a row that update, each on its own scan
C18_Witness ==
    /\ After /\ Did("publish")
    /\ pre.outcome = "updated"
    /\ pre.laser_msg_.stamp # laser_msg_.stamp

\* the cycle used the transform listener / the transform broadcaster
ListenerUsed == ~None({"waitForTransform", "lookupTransform"})

BroadcasterUsed == ~None({"sendTransform"})

\* C19: the transform listener and the transform broadcaster are never used
\* while null: before the first initialize() call neither exists and nothing
\* is subscribed to; they are created together, on the path of initialize()
\* that also subscribes to the laser topic, so that whenever the plugin is
\* subscribed, holds a scan or has one pending, both exist; and a cycle that
\* waits for, looks up or broadcasts a transform finds both in place.
C19_TransformObjectsExistWhenUsed ==
    /\ initialized = "no" =>
          ~tf_listener_ /\ ~tf_broadcaster_ /\ ~sub_laser_ /\ ~sub_initial_pose_
    /\ tf_listener_ <=> tf_broadcaster_
    /\ sub_laser_ \/ sub_initial_pose_ => tf_listener_ /\ tf_broadcaster_
    /\ laser_msg_ # NULL \/ cb_queue_ # << >> => sub_laser_
    /\ initialized = "failed" => ~tf_listener_ /\ ~tf_broadcaster_ /\ ~sub_laser_
    /\ After /\ (ListenerUsed \/ BroadcasterUsed) => tf_listener_ /\ tf_broadcaster_

\* a cycle that waited for transforms and broadcast one
C19_Witness ==
    /\ After /\ ListenerUsed /\ BroadcasterUsed
    /\ tf_listener_ /\ tf_broadcaster_

\* the mean pose the cycle computed
MeanPose == Calls(events, {"calculateMeanPose"})[1].arg

\* the odometry pose the cycle used: the one it looked up, or the stored
\* previous pose when the lookup threw
OdomUsed == IF OdomObtained THEN OdomPose ELSE pre.previous_pose_

\* C20: in every publishing cycle the published map -> odom transform composed
\* with the odometry pose used in the cycle is the mean pose of the particle
\* set (at height zero), where the odometry pose used is the one looked up in
\* the cycle, or the stored previous pose when the lookup threw and the
\* identity movement was applied.
C20_CorrectionConsistent ==
    After /\ Did("sendTransform") =>
        /\ MeanPose = calculateMeanPose(samples)
        /\ Planar(P3Mul(Sent[1].arg.transform, OdomUsed)) = MeanPose
        /\ P3Mul(Sent[1].arg.transform, OdomUsed).z = 0
        /\ ~OdomObtained =>
              /\ OdomThrew /\ pre.have_previous_pose_
              /\ MovementSet = T2Identity
              /\ previous_pose_ = pre.previous_pose_

\* a publication in a cycle whose odometry lookup threw, the particles being
\* away from the origin
C20_Witness ==
    /\ After /\ Did("sendTransform") /\ OdomThrew
    /\ MeanPose # T2Identity
    /\ Planar(Sent[1].arg.transform) # MeanPose

====
